---- MODULE Spec2Model ----
(***************************************************************************)
(* A model of the HubSpot ingestion connector:                             *)
(*   src/00_hubspot_config_and_scopes.py  get_access_token, hs_request,    *)
(*       paginate_get, write_bronze_delta, get_watermark, set_watermark    *)
(*   src/02_hubspot_incremental_load_crm.py  crm_search_since,             *)
(*       incremental_object                                                *)
(*   src/01_hubspot_full_load.py  the load_* functions and the run of      *)
(*       lines 84-98                                                       *)
(*                                                                         *)
(* Python values are modelled as follows.                                  *)
(*   - None in a string-typed slot is the string None.                     *)
(*   - A decoded JSON object is a record [keys, results, after]: keys is   *)
(*     the set of top-level keys the object has, results the value of      *)
(*     "results", after the value of paging.next.after.                    *)
(*   - A raw record is [id, lm]: lm is the value of                        *)
(*     properties.hs_lastmodifieddate, NoLm when the record has none.      *)
(*     hs_lastmodifieddate strings are modelled by their rank in Python's  *)
(*     str order (rank 0 is the epoch default of get_watermark).           *)
(*   - A Retry-After header is [has, val], val a sequence of ASCII         *)
(*     characters.                                                         *)
(***************************************************************************)
EXTENDS Integers, Sequences, FiniteSets, TLC

VARIABLES
    hpc,        \* position inside hs_request: idle, token, send, recv, returned, raised
    req,        \* arguments of the running hs_request
    attempt,    \* hs_request's local 'attempt'
    calls,      \* requests.request calls issued by the running hs_request
    tokens,     \* get_access_token calls made by the running hs_request
    sleeps,     \* time.sleep calls made by the running hs_request
    sleep_s,    \* hs_request's local 'sleep_s' (the last delay slept)
    resp,       \* hs_request's local 'resp' (the last response)
    result,     \* value returned by hs_request
    err,        \* exception raised by hs_request
    transient_seen, \* history: 429/5xx-transient responses received by the running hs_request
    ppc,        \* position inside paginate_get: idle, loop, wait, done, failed
    p_path,     \* paginate_get's parameter 'path'
    page_key,   \* paginate_get's parameter 'page_key'
    p_after,    \* p.get("after") of paginate_get's local 'p'
    out,        \* paginate_get's local 'out'
    sent,       \* history: the 'after' parameter of each request paginate_get made
    pages_got,  \* history: the pages hs_request returned to paginate_get
    ipc,        \* position inside incremental_object: idle, search, wait, write, commit, done, failed
    since,      \* incremental_object's local 'since'
    s_after,    \* crm_search_since's local 'after'
    rows,       \* crm_search_since's 'out', then incremental_object's 'rows'
    wm_table,   \* the Delta table at WATERMARK_PATH: a set of rows
    now,        \* the clock read by set_watermark (datetime.now)
    sink,       \* the Delta table at BRONZE_BASE_PATH/<entity>, per entity
    crm,        \* the upstream CRM objects, in the order the search returns them
    run_no,     \* history: incremental_object runs started
    table0,     \* history: wm_table when the running incremental_object started
    sink0,      \* history: sink when the running incremental_object started
    write_attempted, \* history: the run reached the Delta save of write_bronze_delta
    write_returned,  \* history: write_bronze_delta returned normally in this run
    set_calls,  \* history: set_watermark calls of this run
    set_args,   \* history: the watermark_value of each set_watermark call of this run
    written,    \* history: the records this run saved to the sink
    failed_at,  \* history: where the run raised: none, search, write, set
    prev_ok,    \* history: the previous run ended normally
    spc,        \* per notebook run, position inside set_watermark: idle, overwrite, done, failed
    s_ent,      \* per notebook run, set_watermark's parameter 'entity'
    s_val,      \* per notebook run, set_watermark's parameter 'watermark_value'
    s_ts,       \* per notebook run, set_watermark's local 'now_ts'
    s_df,       \* per notebook run, set_watermark's local 'df' (the snapshot of line 201)
    s_olap,     \* history, per notebook run: its last set_watermark call overlapped another run's
    gw,         \* the last get_watermark call that returned: its entity and its value
    fpc,        \* position inside the full-load notebook: idle, call, wait, fallback,
                \* single, rev_wait, write, done, aborted
    step,       \* the load call of lines 84-98 that is running (index into FullSteps)
    frows,      \* the local 'data' / 'rows' / 'out' of the running load function
    campaigns,  \* the notebook's global 'campaigns' (line 92)
    c_idx,      \* load_campaign_revenue's position in 'campaigns'
    up,         \* the records each upstream list endpoint holds, per entity
    f_auth,     \* history: a token exchange failed in this run
    f_api_at,   \* history: the step at which a request last failed with an API error (0: none)
    f_loaded,   \* history: the steps whose write_bronze_delta call returned
    f_fail,     \* history: what aborted the run: none, fetch, write
    f_rev       \* history: per campaign visited by load_campaign_revenue, what happened

hvars == <<hpc, req, attempt, calls, tokens, sleeps, sleep_s, resp, result, err,
           transient_seen>>

pvars == <<ppc, p_path, page_key, p_after, out, sent, pages_got>>

ivars == <<ipc, since, s_after, rows, wm_table, now, sink, crm, run_no, table0, sink0,
           write_attempted, write_returned, set_calls, set_args, written, failed_at,
           prev_ok>>

\* ivars without the watermark table and the clock
irun == <<ipc, since, s_after, rows, sink, crm, run_no, table0, sink0,
          write_attempted, write_returned, set_calls, set_args, written, failed_at,
          prev_ok>>

svars == <<spc, s_ent, s_val, s_ts, s_df, s_olap, gw>>

fvars == <<fpc, step, frows, campaigns, c_idx, up, f_auth, f_api_at, f_loaded, f_fail,
           f_rev>>

vars == <<hvars, pvars, ivars, svars, fvars>>

None == "None"

----------------------------------------------------------------------------
(* Bounds and program constants *)

\* default of hs_request's max_retries parameter
max_retries_default == 6

\* the backoff cap of hs_request
backoff_cap == 60

\* the most pages one paginate_get is followed through
MaxPages == 3

\* the most objects the upstream CRM holds
MaxRecs == 2

\* the most records the search endpoint puts on one page
SearchPageSize == 1

\* the most incremental_object runs of one behaviour
MaxRuns == 2

\* the most set_watermark calls of one behaviour of the watermark store
MaxSets == 3

\* the most rows the watermark table holds at the start
MaxInitRows == 3

\* the most campaigns the upstream campaigns endpoint holds
MaxCampaigns == 3

\* the most upstream list endpoints that hold no record
MaxEmpty == 1

\* get_watermark's default_iso "1970-01-01T00:00:00.000Z", as a rank
default_iso == 0

----------------------------------------------------------------------------
(* Values *)

\* the entity incremental_object is run for (line 69), and one more
IncrEntity == "crm_feedback_submissions"

OtherEntity == "crm_owners"

Entities == {IncrEntity, OtherEntity}

NoLm == -1

EmptyObj == [keys |-> {}, results |-> <<>>, after |-> None]

NoResult == [keys |-> {"<unset>"}, results |-> <<>>, after |-> None]

Rec(i, v) == [id |-> i, lm |-> v]

Envelope(rs, a) ==
    [keys |-> {"results"} \cup (IF a = None THEN {} ELSE {"paging"}),
     results |-> rs, after |-> a]

\* a response body: its text is empty, a JSON document (val) or not JSON
EmptyBody == [kind |-> "empty", val |-> NoResult]

JsonBody(v) == [kind |-> "json", val |-> v]

GarbageBody == [kind |-> "garbage", val |-> NoResult]

NoHeader == [has |-> FALSE, val |-> <<>>]

Header(s) == [has |-> TRUE, val |-> s]

NoResp == [status |-> 0, retry_after |-> NoHeader, body |-> EmptyBody]

NoErr == [kind |-> "none", status |-> 0, path |-> "", body |-> EmptyBody]

----------------------------------------------------------------------------
(* Pure helpers of hs_request *)

Digits == {"0", "1", "2", "3", "4", "5", "6", "7", "8", "9"}

DigitVal(c) ==
    CASE c = "0" -> 0 [] c = "1" -> 1 [] c = "2" -> 2 [] c = "3" -> 3
      [] c = "4" -> 4 [] c = "5" -> 5 [] c = "6" -> 6 [] c = "7" -> 7
      [] c = "8" -> 8 [] c = "9" -> 9

\* str.isdigit on an ASCII string: non-empty and every character a digit
isdigit(s) == Len(s) > 0 /\ \A i \in 1..Len(s) : s[i] \in Digits

RECURSIVE int(_)
\* int(s) for a string of digits
int(s) ==
    IF Len(s) = 0 THEN 0
    ELSE 10 * int(SubSeq(s, 1, Len(s) - 1)) + DigitVal(s[Len(s)])

RECURSIVE Pow2(_)
Pow2(n) == IF n = 0 THEN 1 ELSE 2 * Pow2(n - 1)

Min(a, b) == IF a <= b THEN a ELSE b

\* resp.headers.get("Retry-After"): None when the header is absent
retry_after(r) == r.retry_after

\* line 104: the truthiness test 'retry_after and retry_after.isdigit()'
RetryAfterUsable(h) == h.has /\ Len(h.val) > 0 /\ isdigit(h.val)

\* seeded fault: the exponential backoff is not capped
SleepSeconds_uncapped(h, att) ==
    IF RetryAfterUsable(h) THEN int(h.val) ELSE Pow2(att)

\* line 104: sleep_s
SleepSeconds(h, att) ==
    IF RetryAfterUsable(h) THEN int(h.val) ELSE Min(backoff_cap, Pow2(att))

\* seeded fault: a 404 is treated as transient too
RetryStatuses_with_404 == {404, 429, 500, 502, 503, 504}

\* line 102: the statuses that are retried
RetryStatuses == {429, 500, 502, 503, 504}

\* seeded fault: one retry fewer than max_retries (attempt < max_retries)
ShouldRetry_strict(status, att, maxr) == status \in RetryStatuses /\ att < maxr

\* seeded fault: one retry more than max_retries
ShouldRetry_extra(status, att, maxr) == status \in RetryStatuses /\ att <= maxr + 1

\* line 102: the retry condition
ShouldRetry(status, att, maxr) == status \in RetryStatuses /\ att <= maxr

\* seeded fault: return resp.json() without the empty-text case
DecodeBody_always_json(b) == b.val

\* line 99: resp.json() if resp.text else {}
DecodeBody(b) == IF b.kind = "empty" THEN EmptyObj ELSE b.val

----------------------------------------------------------------------------
(* The upstream API: what it answers to a probe, a list and a search request *)

\* the statuses the upstream documents as transient (rate limit, server error)
TransientStatuses == {429, 500, 502, 503, 504}

TokenStatuses == {200, 401}

ProbeStatuses == {200, 204, 301, 404, 429, 500, 501, 502, 503, 504}

ProbeHeaders ==
    {NoHeader, Header(<<>>), Header(<<"0">>), Header(<<"5">>),
     Header(<<"9", "0">>), Header(<<"x">>), Header(<<"1", ".", "5">>)}

ProbeBodies ==
    {EmptyBody, GarbageBody,
     JsonBody(EmptyObj),
     JsonBody(Envelope(<<>>, None)),
     JsonBody(Envelope(<<Rec(1, NoLm)>>, "a"))}

ErrorBodies == {EmptyBody, GarbageBody}

\* the cursors a list endpoint hands out; "" is an empty paging.next.after
Cursors == {"a", "b"}

\* the page a list endpoint returns as its i-th page: n records, cursor a
ListPage(i, n, a) == Envelope([j \in 1..n |-> Rec(10 * i + j, NoLm)], a)

ListBodies ==
    {JsonBody(ListPage(Len(pages_got) + 1, n, a)) :
        n \in 0..2, a \in Cursors \cup {None, ""}}
    \cup {EmptyBody}

\* the pages of a list endpoint that holds MaxPages pages at most: its last
\* page carries no cursor
FiniteListBodies ==
    {JsonBody(ListPage(Len(pages_got) + 1, n, a)) :
        n \in 0..1,
        a \in IF Len(pages_got) + 1 < MaxPages THEN Cursors \cup {None, ""} ELSE {None, ""}}
    \cup {EmptyBody}

ListStatuses == {200, 404, 429}

SearchStatuses == {200, 404, 429}

TsValues == {1, 2, 3}

\* an upstream object: ts is its hs_lastmodifieddate, shown whether the search
\* result carries properties.hs_lastmodifieddate
CrmObjects == [ts : TsValues, shown : BOOLEAN]

\* seeded fault: the filter operator is GT
SearchFilter_GT(v, since_iso) == v > since_iso

\* lines 21-27: the filter hs_lastmodifieddate GTE since_iso
SearchFilter(v, since_iso) == v >= since_iso

\* the raw record the search returns for the i-th object
RawOf(i) == Rec(i, IF crm[i].shown THEN crm[i].ts ELSE NoLm)

\* the ids of the objects matching the filter, in the order they are returned
Matching(since_iso) ==
    LET Test(i) == SearchFilter(crm[i].ts, since_iso)
    IN  SelectSeq([i \in 1..Len(crm) |-> i], Test)

OffsetOf(a) == IF a = None THEN 0 ELSE CHOOSE k \in 0..Len(crm) : ToString(k) = a

\* the page the search endpoint returns for the body {filter since, after}
SearchPage(since_iso, a) ==
    LET m == Matching(since_iso)
        off == OffsetOf(a)
        last == Min(off + SearchPageSize, Len(m))
    IN  Envelope([j \in 1..(last - off) |-> RawOf(m[off + j])],
                 IF last < Len(m) THEN ToString(last) ELSE None)

\* lines 84-98 of the full-load notebook: the load calls in order, each with
\* the function called, the path it requests and the entity it writes
FullSteps == <<
    [fn |-> "load_owners", path |-> "/crm/v3/owners/", entity |-> "crm_owners"],
    [fn |-> "load_crm_object", path |-> "/crm/v3/objects/marketing_events",
     entity |-> "crm_marketing_events"],
    [fn |-> "load_crm_object", path |-> "/crm/v3/objects/feedback_submissions",
     entity |-> "crm_feedback_submissions"],
    [fn |-> "load_crm_object", path |-> "/crm/v3/objects/partner-clients",
     entity |-> "crm_partner_clients"],
    [fn |-> "load_crm_object", path |-> "/crm/v3/objects/partner-services",
     entity |-> "crm_partner_services"],
    [fn |-> "load_meeting_links", path |-> "/scheduler/v3/meetings/meeting-links",
     entity |-> "scheduler_meeting_links"],
    [fn |-> "load_campaigns", path |-> "/marketing/v3/campaigns",
     entity |-> "marketing_campaigns"],
    [fn |-> "load_campaign_revenue", path |-> "/marketing/v3/campaigns/{guid}/reports/revenue",
     entity |-> "marketing_campaign_revenue"],
    [fn |-> "load_currencies", path |-> "/settings/v3/currencies",
     entity |-> "settings_currencies"],
    [fn |-> "load_domains", path |-> "/cms/v3/domains", entity |-> "cms_domains"],
    [fn |-> "load_tax_rates", path |-> "/crm/v3/taxes/tax-rates", entity |-> "tax_rates"],
    [fn |-> "load_comm_pref_definitions", path |-> "/communication-preferences/v4/definitions",
     entity |-> "comm_pref_definitions"] >>

\* SOURCES of the configuration notebook: the mode of each configured entity
SOURCES ==
    [crm_owners |-> "full",
     crm_marketing_events |-> "full",
     crm_feedback_submissions |-> "incremental",
     crm_partner_clients |-> "full",
     crm_partner_services |-> "full",
     crm_custom_objects |-> "optional",
     scheduler_meeting_links |-> "full",
     marketing_campaigns |-> "full",
     marketing_campaign_revenue |-> "full",
     settings_currencies |-> "full",
     cms_domains |-> "full",
     tax_rates |-> "full",
     comm_pref_definitions |-> "full"]

\* the load functions that fetch with paginate_get, and those that fetch with
\* one hs_request
PagedFns == {"load_owners", "load_crm_object", "load_meeting_links", "load_campaigns"}

SingleFns == {"load_currencies", "load_domains", "load_tax_rates",
              "load_comm_pref_definitions"}

FullEntities == {FullSteps[i].entity : i \in 1..Len(FullSteps)}

\* the entities fetched from a list endpoint
ListEntities == FullEntities \ {"marketing_campaign_revenue"}

SinkEntities == Entities \cup FullEntities

\* the entity whose list endpoint is path
EntityOfPath(path) ==
    FullSteps[CHOOSE i \in 1..Len(FullSteps) : FullSteps[i].path = path].entity

\* line 18: the fallback path of load_owners
OwnersV2Path == "/owners/v2/owners"

\* c.get("id") of a campaign record without an id (falsy at line 45)
NoId == 0

CampaignIds == 1..MaxCampaigns

\* line 48: f"/marketing/v3/campaigns/{guid}/reports/revenue"
RevenuePath(guid) == "/marketing/v3/campaigns/" \o ToString(guid) \o "/reports/revenue"

RevenuePaths == {RevenuePath(g) : g \in CampaignIds}

GuidOfPath(path) == CHOOSE g \in CampaignIds : RevenuePath(g) = path

\* the revenue report the upstream holds for campaign guid
RevObj(guid) == [keys |-> {"revenue"}, results |-> <<Rec(guid, NoLm)>>, after |-> None]

\* a decoded JSON array (the owners v2 endpoint returns a list)
ListDoc == [keys |-> {"<list>"}, results |-> <<>>, after |-> None]

\* isinstance(data, dict)
IsDict(data) == "<list>" \notin data.keys

\* the records a list endpoint with records holds, and the records the sink
\* holds from an earlier run
FreshRows == <<Rec(1, NoLm), Rec(2, NoLm)>>

OldRows == <<Rec(3, NoLm)>>

\* the campaigns the upstream may hold: ids 1..n, at most one record without id
CampaignLists ==
    {[i \in 1..n |-> Rec(IF i = k THEN NoId ELSE i, NoLm)] :
        n \in 0..MaxCampaigns, k \in 0..MaxCampaigns}

\* the upstream list endpoints: those of E hold no record, the campaigns
\* endpoint holds cl
Upstream(E, cl) ==
    [e \in ListEntities |->
        IF e = "marketing_campaigns" THEN cl
        ELSE IF e \in E THEN <<>> ELSE FreshRows]

Upstreams ==
    {Upstream(E, cl) :
        E \in {X \in SUBSET (ListEntities \ {"marketing_campaigns"}) : Cardinality(X) <= MaxEmpty},
        cl \in CampaignLists}

FullStatuses == {200, 404}

OkBodies(r) ==
    CASE r.path = "/probe" -> ProbeBodies
      [] r.path = "/list" -> ListBodies
      [] r.path = "/finite" -> FiniteListBodies
      [] r.path = "/search" -> {JsonBody(SearchPage(r.since, r.after))}
      [] r.path = OwnersV2Path ->
            {JsonBody(ListDoc), JsonBody(Envelope(up["crm_owners"], None))}
      [] r.path \in RevenuePaths -> {JsonBody(RevObj(GuidOfPath(r.path)))}
      [] OTHER -> {JsonBody(Envelope(up[EntityOfPath(r.path)], None))}


\* the responses the upstream may give to request r
Responses(r) ==
    LET sts == CASE r.path = "/probe" -> ProbeStatuses
                 [] r.path \in {"/list", "/finite"} -> ListStatuses
                 [] r.path = "/search" -> SearchStatuses
                 [] OTHER -> FullStatuses
        hds == IF r.path = "/probe" THEN ProbeHeaders ELSE {NoHeader}
    IN  {[status |-> s, retry_after |-> NoHeader, body |-> b] :
            s \in {x \in sts : x < 300}, b \in OkBodies(r)}
        \cup
        {[status |-> s, retry_after |-> h, body |-> GarbageBody] :
            s \in sts \cap TransientStatuses, h \in hds}
        \cup
        {[status |-> s, retry_after |-> NoHeader, body |-> b] :
            s \in {x \in sts : x >= 300} \ TransientStatuses, b \in ErrorBodies}

----------------------------------------------------------------------------
(* hs_request *)

\* the call hs_request(method, path, ...) as made by a caller
hs_request(r) ==
    /\ hpc' = "token"
    /\ req' = r
    /\ attempt' = 0
    /\ calls' = 0
    /\ tokens' = 0
    /\ sleeps' = 0
    /\ sleep_s' = 0
    /\ resp' = NoResp
    /\ result' = NoResult
    /\ err' = NoErr
    /\ transient_seen' = 0

\* line 83: token = get_access_token()
get_access_token ==
    /\ hpc = "token"
    /\ tokens' = tokens + 1
    /\ \E st \in TokenStatuses :
          IF st >= 300
          THEN /\ hpc' = "raised"
               /\ err' = [kind |-> "auth", status |-> st, path |-> "/oauth/v1/token",
                          body |-> GarbageBody]
          ELSE /\ hpc' = "send"
               /\ err' = err
    /\ UNCHANGED <<req, attempt, calls, sleeps, sleep_s, resp, result, transient_seen>>
    /\ UNCHANGED <<pvars, ivars, svars, fvars>>

\* lines 89-97: attempt += 1; resp = requests.request(...)
hs_request_send ==
    /\ hpc = "send"
    /\ attempt' = attempt + 1
    /\ calls' = calls + 1
    /\ \E r \in Responses(req) :
          /\ resp' = r
          /\ transient_seen' =
                IF r.status \in TransientStatuses THEN transient_seen + 1 ELSE transient_seen
    /\ hpc' = "recv"
    /\ UNCHANGED <<req, tokens, sleeps, sleep_s, result, err>>
    /\ UNCHANGED <<pvars, ivars, svars, fvars>>

\* lines 90-97: requests.request raises (timeout, connection error); not caught
hs_request_network_error ==
    /\ hpc = "send"
    /\ attempt' = attempt + 1
    /\ calls' = calls + 1
    /\ hpc' = "raised"
    /\ err' = [kind |-> "network", status |-> 0, path |-> req.path, body |-> EmptyBody]
    /\ UNCHANGED <<req, tokens, sleeps, sleep_s, resp, result, transient_seen>>
    /\ UNCHANGED <<pvars, ivars, svars, fvars>>

\* lines 98-99: if resp.status_code < 300: return resp.json() if resp.text else {}
hs_request_return ==
    /\ hpc = "recv"
    /\ resp.status < 300
    /\ IF resp.body.kind = "garbage"
       THEN /\ hpc' = "raised"
            /\ err' = [kind |-> "decode", status |-> resp.status, path |-> req.path,
                       body |-> resp.body]
            /\ result' = result
       ELSE /\ hpc' = "returned"
            /\ result' = DecodeBody(resp.body)
            /\ err' = err
    /\ UNCHANGED <<req, attempt, calls, tokens, sleeps, sleep_s, resp, transient_seen>>
    /\ UNCHANGED <<pvars, ivars, svars, fvars>>

\* seeded fault: the retry goes back to the token exchange
hs_request_retry_reauth ==
    /\ hpc = "recv"
    /\ ~(resp.status < 300)
    /\ ShouldRetry(resp.status, attempt, req.max_retries)
    /\ sleep_s' = SleepSeconds(retry_after(resp), attempt)
    /\ sleeps' = sleeps + 1
    /\ hpc' = "token"
    /\ UNCHANGED <<req, attempt, calls, tokens, resp, result, err, transient_seen>>
    /\ UNCHANGED <<pvars, ivars, svars, fvars>>

\* lines 102-106: sleep and continue
hs_request_retry ==
    /\ hpc = "recv"
    /\ ~(resp.status < 300)
    /\ ShouldRetry(resp.status, attempt, req.max_retries)
    /\ sleep_s' = SleepSeconds(retry_after(resp), attempt)
    /\ sleeps' = sleeps + 1
    /\ hpc' = "send"
    /\ UNCHANGED <<req, attempt, calls, tokens, resp, result, err, transient_seen>>
    /\ UNCHANGED <<pvars, ivars, svars, fvars>>

\* line 108: raise RuntimeError(f"HubSpot API error {status} for {path}: {text}")
hs_request_raise ==
    /\ hpc = "recv"
    /\ ~(resp.status < 300)
    /\ ~ShouldRetry(resp.status, attempt, req.max_retries)
    /\ hpc' = "raised"
    /\ err' = [kind |-> "api", status |-> resp.status, path |-> req.path,
               body |-> resp.body]
    /\ UNCHANGED <<req, attempt, calls, tokens, sleeps, sleep_s, resp, result,
                   transient_seen>>
    /\ UNCHANGED <<pvars, ivars, svars, fvars>>

HsStep ==
    \/ get_access_token
    \/ hs_request_send
    \/ hs_request_network_error
    \/ hs_request_return
    \/ hs_request_retry
    \/ hs_request_raise

----------------------------------------------------------------------------
(* paginate_get *)

\* Python truthiness of a cursor: None and "" are falsy
Falsy(a) == a = None \/ a = ""

\* line 121: data.get(page_key, [])
GetResults(data, key) == IF key \in data.keys THEN data.results ELSE <<>>

\* line 122: ((data.get("paging") or {}).get("next") or {}).get("after")
GetAfter(data) == IF "paging" \in data.keys THEN data.after ELSE None

\* seeded fault: the cursor is stored only when p has no 'after' yet (p.setdefault)
SetAfter_setdefault(old, after) == IF old = None THEN after ELSE old

\* line 125: p["after"] = after
SetAfter(old, after) == after

\* the request paginate_get makes with its current p
ListReq(path, a) == [path |-> path, after |-> a, since |-> 0,
                     max_retries |-> max_retries_default]

\* lines 117-118: out = []; p = dict(params or {})
paginate_get(path, params_after, key) ==
    /\ ppc' = "loop"
    /\ p_path' = path
    /\ page_key' = key
    /\ p_after' = params_after
    /\ out' = <<>>
    /\ sent' = <<>>
    /\ pages_got' = <<>>

\* line 120: data = hs_request("GET", path, params=p)
paginate_get_request ==
    /\ ppc = "loop"
    /\ Len(sent) < MaxPages
    /\ hs_request(ListReq(p_path, p_after))
    /\ sent' = Append(sent, p_after)
    /\ ppc' = "wait"
    /\ UNCHANGED <<p_path, page_key, p_after, out, pages_got>>
    /\ UNCHANGED <<ivars, svars, fvars>>

\* seeded fault: a page without results ends the loop too
paginate_get_page_stop_on_empty ==
    /\ ppc = "wait"
    /\ hpc = "returned"
    /\ IsDict(result)
    /\ out' = out \o GetResults(result, page_key)
    /\ pages_got' = Append(pages_got, result)
    /\ LET after == GetAfter(result)
       IN  IF Falsy(after) \/ GetResults(result, page_key) = <<>>
           THEN /\ ppc' = "done"
                /\ p_after' = p_after
           ELSE /\ ppc' = "loop"
                /\ p_after' = SetAfter(p_after, after)
    /\ UNCHANGED <<p_path, page_key, sent>>
    /\ UNCHANGED hvars
    /\ UNCHANGED <<ivars, svars, fvars>>

\* lines 121-125: extend out, read the cursor, stop or store it in p
paginate_get_page ==
    /\ ppc = "wait"
    /\ hpc = "returned"
    /\ IsDict(result)
    /\ out' = out \o GetResults(result, page_key)
    /\ pages_got' = Append(pages_got, result)
    /\ LET after == GetAfter(result)
       IN  IF Falsy(after)
           THEN /\ ppc' = "done"
                /\ p_after' = p_after
           ELSE /\ ppc' = "loop"
                /\ p_after' = SetAfter(p_after, after)
    /\ UNCHANGED <<p_path, page_key, sent>>
    /\ UNCHANGED hvars
    /\ UNCHANGED <<ivars, svars, fvars>>

\* line 120: hs_request raised; paginate_get does not catch it
paginate_get_raise ==
    /\ ppc = "wait"
    /\ hpc = "raised"
    /\ ppc' = "failed"
    /\ UNCHANGED <<p_path, page_key, p_after, out, sent, pages_got>>
    /\ UNCHANGED hvars
    /\ UNCHANGED <<ivars, svars, fvars>>

\* line 121: data is a list, data.get raises AttributeError
paginate_get_not_dict ==
    /\ ppc = "wait"
    /\ hpc = "returned"
    /\ ~IsDict(result)
    /\ ppc' = "failed"
    /\ UNCHANGED <<p_path, page_key, p_after, out, sent, pages_got>>
    /\ UNCHANGED hvars
    /\ UNCHANGED <<ivars, svars, fvars>>

PgStep == paginate_get_request \/ paginate_get_page \/ paginate_get_raise

----------------------------------------------------------------------------
(* The watermark store: get_watermark, set_watermark *)

WmRow(e, t, v, ts) ==
    [entity |-> e, watermark_type |-> t, watermark_value |-> v, updated_at |-> ts]

\* a null updated_at (the column is nullable, line 174)
NullTs == -1

\* line 194, desc_nulls_last: row r sorts at or before row q
desc_nulls_last(r, q) ==
    \/ q.updated_at = NullTs
    \/ r.updated_at # NullTs /\ r.updated_at >= q.updated_at

\* seeded fault: the filter on the entity is dropped
get_watermark_values_any_entity(table, entity, default) ==
    IF table = {} THEN {default}
    ELSE {r.watermark_value : r \in {t \in table : \A q \in table : desc_nulls_last(t, q)}}

\* lines 189-197: the values get_watermark may return: the watermark_value of
\* a row of the entity that sorts first (limit(1) after the sort picks any row
\* among equals), or the default when the entity has no row
get_watermark_values(table, entity, default) ==
    LET cand == {r \in table : r.entity = entity}
    IN  IF cand = {} THEN {default}
        ELSE {r.watermark_value : r \in {t \in cand : \A q \in cand : desc_nulls_last(t, q)}}

\* lines 189-197: the newest row of the entity, or the default
get_watermark(table, entity, default) ==
    CHOOSE v \in get_watermark_values(table, entity, default) : TRUE

\* lines 200-207: the table set_watermark writes, from the table it read
set_watermark(table, entity, watermark_type, watermark_value, now_ts) ==
    {r \in table : r.entity # entity}
        \cup {WmRow(entity, watermark_type, watermark_value, now_ts)}

\* the notebook runs that share the watermark table
Procs == {"run_a", "run_b"}

\* the watermark values set_watermark is called with
StoreValues == {1, 2}

\* the rows the watermark table may hold at the start
InitRows ==
    {WmRow(e, "hs_lastmodifieddate", v, ts) :
        e \in Entities, v \in StoreValues, ts \in {NullTs, 0, 1}}

NoGet == [entity |-> None, value |-> default_iso]

\* line 187 with lines 177-185, the read of line 181 succeeds: nothing is written
ensure_watermark_table_ok(p) ==
    /\ spc[p] # "overwrite"
    /\ spc' = [spc EXCEPT ![p] = "idle"]
    /\ UNCHANGED <<wm_table, now, irun, s_ent, s_val, s_ts, s_df, s_olap, gw>>
    /\ UNCHANGED <<hvars, pvars, fvars>>

\* line 187 with lines 177-185, the read of line 181 raises (the table is not
\* there yet, or the read failed for any other reason): 'except Exception'
\* overwrites the table with an empty one (lines 183-185)
ensure_watermark_table_recreate(p) ==
    /\ spc[p] # "overwrite"
    /\ wm_table' = {}
    /\ spc' = [spc EXCEPT ![p] = "idle"]
    /\ UNCHANGED <<now, irun, s_ent, s_val, s_ts, s_df, s_olap, gw>>
    /\ UNCHANGED <<hvars, pvars, fvars>>

\* lines 189-197: get_watermark(entity) returns
get_watermark_call(p) ==
    /\ spc[p] # "overwrite"
    /\ \E e \in Entities :
          \E v \in get_watermark_values(wm_table, e, default_iso) :
              gw' = [entity |-> e, value |-> v]
    /\ UNCHANGED <<wm_table, now, irun, spc, s_ent, s_val, s_ts, s_df, s_olap>>
    /\ UNCHANGED <<hvars, pvars, fvars>>

\* lines 200-201: now_ts = datetime.now(...); df = the table as it is now
set_watermark_read(p) ==
    /\ spc[p] # "overwrite"
    /\ now <= MaxSets
    /\ \E e \in Entities, v \in StoreValues :
          /\ s_ent' = [s_ent EXCEPT ![p] = e]
          /\ s_val' = [s_val EXCEPT ![p] = v]
    /\ now' = now + 1
    /\ s_ts' = [s_ts EXCEPT ![p] = now + 1]
    /\ s_df' = [s_df EXCEPT ![p] = wm_table]
    /\ s_olap' = IF \E q \in Procs \ {p} : spc[q] = "overwrite"
                 THEN [q \in Procs |-> q = p \/ spc[q] = "overwrite" \/ s_olap[q]]
                 ELSE [s_olap EXCEPT ![p] = FALSE]
    /\ spc' = [spc EXCEPT ![p] = "overwrite"]
    /\ UNCHANGED <<wm_table, irun, gw>>
    /\ UNCHANGED <<hvars, pvars, fvars>>

\* seeded fault: the overwrite is an append of the new row
set_watermark_overwrite_append(p) ==
    /\ spc[p] = "overwrite"
    /\ wm_table' = wm_table \cup {WmRow(s_ent[p], "hs_lastmodifieddate", s_val[p], s_ts[p])}
    /\ spc' = [spc EXCEPT ![p] = "done"]
    /\ s_ts' = [s_ts EXCEPT ![p] = 0]
    /\ s_df' = [s_df EXCEPT ![p] = {}]
    /\ UNCHANGED <<now, irun, s_ent, s_val, s_olap, gw>>
    /\ UNCHANGED <<hvars, pvars, fvars>>

\* lines 202-207: the table is overwritten with the rows of the other entities
\* in df and the new row
set_watermark_overwrite(p) ==
    /\ spc[p] = "overwrite"
    /\ wm_table' = set_watermark(s_df[p], s_ent[p], "hs_lastmodifieddate", s_val[p], s_ts[p])
    /\ spc' = [spc EXCEPT ![p] = "done"]
    /\ s_ts' = [s_ts EXCEPT ![p] = 0]
    /\ s_df' = [s_df EXCEPT ![p] = {}]
    /\ UNCHANGED <<now, irun, s_ent, s_val, s_olap, gw>>
    /\ UNCHANGED <<hvars, pvars, fvars>>

\* line 207 raises (the commit is rejected or the storage fails): the table
\* keeps its content
set_watermark_overwrite_fails(p) ==
    /\ spc[p] = "overwrite"
    /\ spc' = [spc EXCEPT ![p] = "failed"]
    /\ s_ts' = [s_ts EXCEPT ![p] = 0]
    /\ s_df' = [s_df EXCEPT ![p] = {}]
    /\ UNCHANGED <<wm_table, now, irun, s_ent, s_val, s_olap, gw>>
    /\ UNCHANGED <<hvars, pvars, fvars>>

----------------------------------------------------------------------------
(* The search endpoint, crm_search_since, incremental_object *)

\* lines 20-36: the request crm_search_since makes
SearchReq(since_iso, a) ==
    [path |-> "/search", after |-> a, since |-> since_iso,
     max_retries |-> max_retries_default]

\* seeded fault: the last value seen wins
MaxStep_last_seen(max_wm, v) == IF v # NoLm THEN v ELSE max_wm

\* lines 57-60: one round of the max loop (None is NoLm)
MaxStep(max_wm, v) ==
    IF v # NoLm /\ (max_wm = NoLm \/ v > max_wm) THEN v ELSE max_wm

RECURSIVE MaxWm(_)
\* lines 54-60: max_wm after the loop over rows
MaxWm(rs) ==
    IF Len(rs) = 0 THEN NoLm
    ELSE MaxStep(MaxWm(SubSeq(rs, 1, Len(rs) - 1)), rs[Len(rs)].lm)

\* line 47: since = get_watermark(entity); crm_search_since starts (lines 14-15)
incremental_object ==
    /\ ipc \in {"idle", "done", "failed"}
    /\ run_no < MaxRuns
    /\ run_no' = run_no + 1
    /\ prev_ok' = (ipc = "done")
    /\ since' = get_watermark(wm_table, IncrEntity, default_iso)
    /\ s_after' = None
    /\ rows' = <<>>
    /\ table0' = wm_table
    /\ sink0' = sink
    /\ write_attempted' = FALSE
    /\ write_returned' = FALSE
    /\ set_calls' = 0
    /\ set_args' = <<>>
    /\ written' = <<>>
    /\ failed_at' = "none"
    /\ ipc' = "search"
    /\ UNCHANGED <<wm_table, now, sink, crm>>
    /\ UNCHANGED <<hvars, pvars, svars, fvars>>

\* lines 20-36: build the body, data = hs_request("POST", .../search, json_body=body)
crm_search_since_request ==
    /\ ipc = "search"
    /\ hs_request(SearchReq(since, s_after))
    /\ ipc' = "wait"
    /\ UNCHANGED <<since, s_after, rows, wm_table, now, sink, crm, run_no, table0, sink0,
                   write_attempted, write_returned, set_calls, set_args, written, failed_at, prev_ok>>
    /\ UNCHANGED <<pvars, svars, fvars>>

\* lines 37-44: extend out, read the cursor, loop or return
crm_search_since_page ==
    /\ ipc = "wait"
    /\ hpc = "returned"
    /\ rows' = rows \o GetResults(result, "results")
    /\ s_after' = GetAfter(result)
    /\ ipc' = IF Falsy(GetAfter(result)) THEN "write" ELSE "search"
    /\ UNCHANGED <<since, wm_table, now, sink, crm, run_no, table0, sink0,
                   write_attempted, write_returned, set_calls, set_args, written, failed_at, prev_ok>>
    /\ UNCHANGED <<hvars, pvars, svars, fvars>>

\* seeded fault: a failed search request ends the loop and the rows so far are kept
crm_search_since_raise_swallowed ==
    /\ ipc = "wait"
    /\ hpc = "raised"
    /\ ipc' = "write"
    /\ failed_at' = "search"
    /\ UNCHANGED <<since, s_after, rows, wm_table, now, sink, crm, run_no, table0, sink0,
                   write_attempted, write_returned, set_calls, set_args, written, prev_ok>>
    /\ UNCHANGED <<hvars, pvars, svars, fvars>>

\* line 36: hs_request raised; neither crm_search_since nor incremental_object
\* catches it
crm_search_since_raise ==
    /\ ipc = "wait"
    /\ hpc = "raised"
    /\ ipc' = "failed"
    /\ failed_at' = "search"
    /\ UNCHANGED <<since, s_after, rows, wm_table, now, sink, crm, run_no, table0, sink0,
                   write_attempted, write_returned, set_calls, set_args, written, prev_ok>>
    /\ UNCHANGED <<hvars, pvars, svars, fvars>>

\* line 50 with lines 134-136: write_bronze_delta returns at once on no records
write_bronze_delta_empty ==
    /\ ipc = "write"
    /\ rows = <<>>
    /\ write_returned' = TRUE
    /\ ipc' = "commit"
    /\ UNCHANGED <<since, s_after, rows, wm_table, now, sink, crm, run_no, table0, sink0,
                   write_attempted, set_calls, set_args, written, failed_at, prev_ok>>
    /\ UNCHANGED <<hvars, pvars, svars, fvars>>

\* line 50 with lines 138-165: the append is saved and write_bronze_delta returns
write_bronze_delta_append ==
    /\ ipc = "write"
    /\ rows # <<>>
    /\ write_attempted' = TRUE
    /\ sink' = [sink EXCEPT ![IncrEntity] = @ \o rows]
    /\ written' = rows
    /\ write_returned' = TRUE
    /\ ipc' = "commit"
    /\ UNCHANGED <<since, s_after, rows, wm_table, now, crm, run_no, table0, sink0,
                   set_calls, set_args, failed_at, prev_ok>>
    /\ UNCHANGED <<hvars, pvars, svars, fvars>>

\* seeded fault: the failure of the write is caught and the run goes on
write_bronze_delta_fails_swallowed ==
    /\ ipc = "write"
    /\ rows # <<>>
    /\ write_attempted' = TRUE
    /\ failed_at' = "write"
    /\ ipc' = "commit"
    /\ UNCHANGED <<since, s_after, rows, wm_table, now, sink, crm, run_no, table0, sink0,
                   write_returned, set_calls, set_args, written, prev_ok>>
    /\ UNCHANGED <<hvars, pvars, svars, fvars>>

\* lines 140-155 raise: nothing is saved; or lines 158-165 raise (the schema or
\* table registration, the count): the append is already saved. Not caught.
write_bronze_delta_fails ==
    /\ ipc = "write"
    /\ rows # <<>>
    /\ write_attempted' = TRUE
    /\ failed_at' = "write"
    /\ ipc' = "failed"
    /\ \/ UNCHANGED <<sink, written>>
       \/ /\ sink' = [sink EXCEPT ![IncrEntity] = @ \o rows]
          /\ written' = rows
    /\ UNCHANGED <<since, s_after, rows, wm_table, now, crm, run_no, table0, sink0,
                   write_returned, set_calls, set_args, prev_ok>>
    /\ UNCHANGED <<hvars, pvars, svars, fvars>>

\* seeded fault: with nothing to commit the watermark is stamped again with the
\* value the run started from
incremental_object_no_commit_restamp ==
    /\ ipc = "commit"
    /\ (rows = <<>> \/ MaxWm(rows) = NoLm)
    /\ set_calls' = set_calls + 1
    /\ set_args' = Append(set_args, since)
    /\ now' = now + 1
    /\ wm_table' = set_watermark(wm_table, IncrEntity, "hs_lastmodifieddate", since, now + 1)
    /\ ipc' = "done"
    /\ UNCHANGED <<since, s_after, rows, sink, crm, run_no, table0, sink0,
                   write_attempted, write_returned, written, failed_at, prev_ok>>
    /\ UNCHANGED <<hvars, pvars, svars, fvars>>

\* lines 53-65 when no watermark is stored: rows is empty, or no row carries a
\* truthy hs_lastmodifieddate
incremental_object_no_commit ==
    /\ ipc = "commit"
    /\ (rows = <<>> \/ MaxWm(rows) = NoLm)
    /\ ipc' = "done"
    /\ UNCHANGED <<since, s_after, rows, wm_table, now, sink, crm, run_no, table0, sink0,
                   write_attempted, write_returned, set_calls, set_args, written, failed_at, prev_ok>>
    /\ UNCHANGED <<hvars, pvars, svars, fvars>>

\* seeded fault: set_watermark is called inside the loop, once per row
incremental_object_commit_per_record ==
    /\ ipc = "commit"
    /\ rows # <<>>
    /\ MaxWm(rows) # NoLm
    /\ set_calls' = set_calls + Len(rows)
    /\ set_args' = set_args \o [i \in 1..Len(rows) |-> MaxWm(rows)]
    /\ now' = now + 1
    /\ wm_table' = set_watermark(wm_table, IncrEntity, "hs_lastmodifieddate",
                                 MaxWm(rows), now + 1)
    /\ ipc' = "done"
    /\ UNCHANGED <<since, s_after, rows, sink, crm, run_no, table0, sink0,
                   write_attempted, write_returned, written, failed_at, prev_ok>>
    /\ UNCHANGED <<hvars, pvars, svars, fvars>>

\* lines 53-63: set_watermark(entity, "hs_lastmodifieddate", max_wm)
incremental_object_commit ==
    /\ ipc = "commit"
    /\ rows # <<>>
    /\ MaxWm(rows) # NoLm
    /\ set_calls' = set_calls + 1
    /\ set_args' = Append(set_args, MaxWm(rows))
    /\ now' = now + 1
    /\ wm_table' = set_watermark(wm_table, IncrEntity, "hs_lastmodifieddate",
                                 MaxWm(rows), now + 1)
    /\ ipc' = "done"
    /\ UNCHANGED <<since, s_after, rows, sink, crm, run_no, table0, sink0,
                   write_attempted, write_returned, written, failed_at, prev_ok>>
    /\ UNCHANGED <<hvars, pvars, svars, fvars>>

\* line 62: set_watermark raises (the read at line 201 or the overwrite at
\* line 207 fails); the table keeps its content
incremental_object_commit_fails ==
    /\ ipc = "commit"
    /\ rows # <<>>
    /\ MaxWm(rows) # NoLm
    /\ set_calls' = set_calls + 1
    /\ set_args' = Append(set_args, MaxWm(rows))
    /\ failed_at' = "set"
    /\ ipc' = "failed"
    /\ UNCHANGED <<since, s_after, rows, wm_table, now, sink, crm, run_no, table0, sink0,
                   write_attempted, write_returned, written, prev_ok>>
    /\ UNCHANGED <<hvars, pvars, svars, fvars>>

----------------------------------------------------------------------------
(* The full-load notebook: the load_* functions and the run of lines 84-98 *)

\* the load call that is running
Cur == FullSteps[step]

\* lines 49-50: rev["_campaignGuid"] = guid
Tagged(rev, guid) ==
    [keys |-> rev.keys \cup {"_campaignGuid"}, results |-> rev.results, after |-> rev.after,
     campaignGuid |-> guid]

\* the exception a load function sees is recorded: a failed token exchange,
\* an API error
SawAuth == f_auth \/ (hpc = "raised" /\ err.kind = "auth")

SawApiAt == IF hpc = "raised" /\ err.kind = "api" THEN step ELSE f_api_at

\* line 84: the notebook starts its run
full_load_start ==
    /\ fpc = "idle"
    /\ fpc' = "call"
    /\ step' = 1
    /\ UNCHANGED <<frows, campaigns, c_idx, up, f_auth, f_api_at, f_loaded, f_fail, f_rev>>
    /\ UNCHANGED <<hvars, pvars, ivars, svars>>

\* lines 16, 26, 31, 36: rows = paginate_get(path, params=...)
load_paged_call ==
    /\ fpc = "call"
    /\ Cur.fn \in PagedFns
    /\ paginate_get(Cur.path, None, "results")
    /\ fpc' = "wait"
    /\ UNCHANGED <<step, frows, campaigns, c_idx, up, f_auth, f_api_at, f_loaded, f_fail,
                   f_rev>>
    /\ UNCHANGED <<hvars, ivars, svars>>

\* lines 16, 26, 31, 36: paginate_get returned
load_paged_return ==
    /\ fpc = "wait"
    /\ ppc = "done"
    /\ frows' = out
    /\ fpc' = "write"
    /\ UNCHANGED <<step, campaigns, c_idx, up, f_auth, f_api_at, f_loaded, f_fail, f_rev>>
    /\ UNCHANGED <<hvars, pvars, ivars, svars>>

\* lines 26, 31, 36: paginate_get raised; load_crm_object, load_meeting_links,
\* load_campaigns and the notebook do not catch it
load_paged_raise ==
    /\ fpc = "wait"
    /\ ppc = "failed"
    /\ Cur.fn # "load_owners"
    /\ fpc' = "aborted"
    /\ f_fail' = "fetch"
    /\ f_auth' = SawAuth
    /\ f_api_at' = SawApiAt
    /\ UNCHANGED <<step, frows, campaigns, c_idx, up, f_loaded, f_rev>>
    /\ UNCHANGED <<hvars, pvars, ivars, svars>>

\* lines 17-18: load_owners catches any exception of the first paginate_get and
\* calls paginate_get("/owners/v2/owners", ..., page_key=None)
load_owners_fallback ==
    /\ fpc = "wait"
    /\ ppc = "failed"
    /\ Cur.fn = "load_owners"
    /\ paginate_get(OwnersV2Path, None, None)
    /\ fpc' = "fallback"
    /\ f_auth' = SawAuth
    /\ f_api_at' = SawApiAt
    /\ UNCHANGED <<step, frows, campaigns, c_idx, up, f_loaded, f_fail, f_rev>>
    /\ UNCHANGED <<hvars, ivars, svars>>

\* lines 18-21: the fallback returned (a list, so line 21 is not reached)
load_owners_fallback_return ==
    /\ fpc = "fallback"
    /\ ppc = "done"
    /\ frows' = out
    /\ fpc' = "write"
    /\ UNCHANGED <<step, campaigns, c_idx, up, f_auth, f_api_at, f_loaded, f_fail, f_rev>>
    /\ UNCHANGED <<hvars, pvars, ivars, svars>>

\* line 18: the fallback raised inside the except block; nothing catches it
load_owners_fallback_raise ==
    /\ fpc = "fallback"
    /\ ppc = "failed"
    /\ fpc' = "aborted"
    /\ f_fail' = "fetch"
    /\ f_auth' = SawAuth
    /\ f_api_at' = SawApiAt
    /\ UNCHANGED <<step, frows, campaigns, c_idx, up, f_loaded, f_rev>>
    /\ UNCHANGED <<hvars, pvars, ivars, svars>>

\* lines 57, 64, 70, 76: data = hs_request("GET", path, params=...)
load_single_call ==
    /\ fpc = "call"
    /\ Cur.fn \in SingleFns
    /\ hs_request(ListReq(Cur.path, None))
    /\ fpc' = "single"
    /\ UNCHANGED <<step, frows, campaigns, c_idx, up, f_auth, f_api_at, f_loaded, f_fail,
                   f_rev>>
    /\ UNCHANGED <<pvars, ivars, svars>>

\* lines 59, 65, 71, 77: rows = data.get("results", []) if isinstance(data, dict) else data
load_single_return ==
    /\ fpc = "single"
    /\ hpc = "returned"
    /\ frows' = IF IsDict(result) THEN GetResults(result, "results") ELSE result.results
    /\ fpc' = "write"
    /\ UNCHANGED <<step, campaigns, c_idx, up, f_auth, f_api_at, f_loaded, f_fail, f_rev>>
    /\ UNCHANGED <<hvars, pvars, ivars, svars>>

\* lines 57, 64, 70, 76: hs_request raised; nothing catches it
load_single_raise ==
    /\ fpc = "single"
    /\ hpc = "raised"
    /\ fpc' = "aborted"
    /\ f_fail' = "fetch"
    /\ f_auth' = SawAuth
    /\ f_api_at' = SawApiAt
    /\ UNCHANGED <<step, frows, campaigns, c_idx, up, f_loaded, f_rev>>
    /\ UNCHANGED <<hvars, pvars, ivars, svars>>

\* lines 42-43: out = []; the loop over campaigns starts
load_campaign_revenue ==
    /\ fpc = "call"
    /\ Cur.fn = "load_campaign_revenue"
    /\ frows' = <<>>
    /\ c_idx' = 1
    /\ f_rev' = <<>>
    /\ fpc' = "rev_loop"
    /\ UNCHANGED <<step, campaigns, up, f_auth, f_api_at, f_loaded, f_fail>>
    /\ UNCHANGED <<hvars, pvars, ivars, svars>>

\* lines 44-46: the campaign has no id: continue
load_campaign_revenue_skip ==
    /\ fpc = "rev_loop"
    /\ c_idx <= Len(campaigns)
    /\ campaigns[c_idx].id = NoId
    /\ c_idx' = c_idx + 1
    /\ f_rev' = Append(f_rev, [guid |-> NoId, status |-> "no_id", rev |-> NoResult])
    /\ UNCHANGED <<fpc, step, frows, campaigns, up, f_auth, f_api_at, f_loaded, f_fail>>
    /\ UNCHANGED <<hvars, pvars, ivars, svars>>

\* line 48: rev = hs_request("GET", f"/marketing/v3/campaigns/{guid}/reports/revenue")
load_campaign_revenue_request ==
    /\ fpc = "rev_loop"
    /\ c_idx <= Len(campaigns)
    /\ campaigns[c_idx].id # NoId
    /\ hs_request(ListReq(RevenuePath(campaigns[c_idx].id), None))
    /\ fpc' = "rev_wait"
    /\ UNCHANGED <<step, frows, campaigns, c_idx, up, f_auth, f_api_at, f_loaded, f_fail,
                   f_rev>>
    /\ UNCHANGED <<pvars, ivars, svars>>

\* lines 49-50: rev["_campaignGuid"] = guid; out.append(rev)
load_campaign_revenue_append ==
    /\ fpc = "rev_wait"
    /\ hpc = "returned"
    /\ frows' = Append(frows, Tagged(result, campaigns[c_idx].id))
    /\ f_rev' = Append(f_rev, [guid |-> campaigns[c_idx].id, status |-> "ok", rev |-> result])
    /\ c_idx' = c_idx + 1
    /\ fpc' = "rev_loop"
    /\ UNCHANGED <<step, campaigns, up, f_auth, f_api_at, f_loaded, f_fail>>
    /\ UNCHANGED <<hvars, pvars, ivars, svars>>

\* seeded fault: a failed campaign leaves an empty record in out
load_campaign_revenue_except_placeholder ==
    /\ fpc = "rev_wait"
    /\ hpc = "raised"
    /\ frows' = Append(frows, Tagged(EmptyObj, campaigns[c_idx].id))
    /\ f_rev' = Append(f_rev, [guid |-> campaigns[c_idx].id, status |-> "failed",
                                rev |-> NoResult])
    /\ f_auth' = SawAuth
    /\ f_api_at' = SawApiAt
    /\ c_idx' = c_idx + 1
    /\ fpc' = "rev_loop"
    /\ UNCHANGED <<step, campaigns, up, f_loaded, f_fail>>
    /\ UNCHANGED <<hvars, pvars, ivars, svars>>

\* lines 51-52: any exception of hs_request is printed and the loop goes on
load_campaign_revenue_except ==
    /\ fpc = "rev_wait"
    /\ hpc = "raised"
    /\ f_rev' = Append(f_rev, [guid |-> campaigns[c_idx].id, status |-> "failed",
                                rev |-> NoResult])
    /\ f_auth' = SawAuth
    /\ f_api_at' = SawApiAt
    /\ c_idx' = c_idx + 1
    /\ fpc' = "rev_loop"
    /\ UNCHANGED <<step, frows, campaigns, up, f_loaded, f_fail>>
    /\ UNCHANGED <<hvars, pvars, ivars, svars>>

\* line 53: the loop is over, write_bronze_delta(out, ...) is called
load_campaign_revenue_end ==
    /\ fpc = "rev_loop"
    /\ c_idx > Len(campaigns)
    /\ fpc' = "write"
    /\ UNCHANGED <<step, frows, campaigns, c_idx, up, f_auth, f_api_at, f_loaded, f_fail,
                   f_rev>>
    /\ UNCHANGED <<hvars, pvars, ivars, svars>>

\* write_bronze_delta returned: the load function returns (load_campaigns
\* returns rows, line 38) and the notebook goes to its next line
LoadReturns ==
    /\ f_loaded' = f_loaded \cup {step}
    /\ campaigns' = IF Cur.fn = "load_campaigns" THEN frows ELSE campaigns
    /\ IF step = Len(FullSteps)
       THEN fpc' = "done" /\ step' = step
       ELSE fpc' = "call" /\ step' = step + 1
    /\ UNCHANGED <<frows, c_idx, up, f_auth, f_api_at, f_fail, f_rev>>

\* ivars without the sink
inosink == <<ipc, since, s_after, rows, wm_table, now, crm, run_no, table0, sink0,
             write_attempted, write_returned, set_calls, set_args, written, failed_at,
             prev_ok>>

\* lines 134-136 under mode="overwrite": no records, write_bronze_delta
\* returns at once
write_bronze_delta_overwrite_empty ==
    /\ fpc = "write"
    /\ frows = <<>>
    /\ LoadReturns
    /\ UNCHANGED <<hvars, pvars, ivars, svars>>

\* lines 138-165 under mode="overwrite": the Delta table of the entity is
\* replaced by the records
write_bronze_delta_overwrite ==
    /\ fpc = "write"
    /\ frows # <<>>
    /\ sink' = [sink EXCEPT ![Cur.entity] = frows]
    /\ LoadReturns
    /\ UNCHANGED <<hvars, pvars, inosink, svars>>

\* lines 138-165 under mode="overwrite" raise, before the save or after it;
\* nothing catches it
write_bronze_delta_overwrite_fails ==
    /\ fpc = "write"
    /\ frows # <<>>
    /\ fpc' = "aborted"
    /\ f_fail' = "write"
    /\ \/ sink' = sink
       \/ sink' = [sink EXCEPT ![Cur.entity] = frows]
    /\ UNCHANGED <<step, frows, campaigns, c_idx, up, f_auth, f_api_at, f_loaded, f_rev>>
    /\ UNCHANGED <<hvars, pvars, inosink, svars>>

----------------------------------------------------------------------------
(* SpecHttp: one hs_request after another, each with any max_retries *)

ProbeReq(n) == [path |-> "/probe", after |-> None, since |-> 0, max_retries |-> n]

InitHttp ==
    /\ hpc = "idle"
    /\ req = ProbeReq(max_retries_default)
    /\ attempt = 0
    /\ calls = 0
    /\ tokens = 0
    /\ sleeps = 0
    /\ sleep_s = 0
    /\ resp = NoResp
    /\ result = NoResult
    /\ err = NoErr
    /\ transient_seen = 0

InitPage ==
    /\ ppc = "idle"
    /\ p_path = "/list"
    /\ page_key = "results"
    /\ p_after = None
    /\ out = <<>>
    /\ sent = <<>>
    /\ pages_got = <<>>

\* the incremental notebook is not running: an empty CRM, store and sink
InitIncrIdle ==
    /\ ipc = "idle"
    /\ since = default_iso
    /\ s_after = None
    /\ rows = <<>>
    /\ wm_table = {}
    /\ now = 0
    /\ sink = [e \in SinkEntities |-> <<>>]
    /\ crm = <<>>
    /\ run_no = 0
    /\ table0 = {}
    /\ sink0 = [e \in SinkEntities |-> <<>>]
    /\ write_attempted = FALSE
    /\ write_returned = FALSE
    /\ set_calls = 0
    /\ set_args = <<>>
    /\ written = <<>>
    /\ failed_at = "none"
    /\ prev_ok = FALSE

\* no notebook run is inside set_watermark
InitStoreIdle ==
    /\ spc = [p \in Procs |-> "idle"]
    /\ s_ent = [p \in Procs |-> None]
    /\ s_val = [p \in Procs |-> default_iso]
    /\ s_ts = [p \in Procs |-> 0]
    /\ s_df = [p \in Procs |-> {}]
    /\ s_olap = [p \in Procs |-> FALSE]
    /\ gw = NoGet

\* the full-load notebook is not running
InitFullIdle ==
    /\ fpc = "idle"
    /\ step = 0
    /\ frows = <<>>
    /\ campaigns = <<>>
    /\ c_idx = 0
    /\ up = Upstream({}, <<>>)
    /\ f_auth = FALSE
    /\ f_api_at = 0
    /\ f_loaded = {}
    /\ f_fail = "none"
    /\ f_rev = <<>>

\* a caller invokes hs_request on a probe path
ProbeCall ==
    /\ hpc \in {"idle", "returned", "raised"}
    /\ \E n \in 0..max_retries_default : hs_request(ProbeReq(n))
    /\ UNCHANGED <<pvars, ivars, svars, fvars>>

NextHttp ==
    \/ ProbeCall
    \/ get_access_token
    \/ hs_request_send
    \/ hs_request_network_error
    \/ hs_request_return
    \/ hs_request_retry
    \/ hs_request_raise

InitProbe == InitHttp /\ InitPage /\ InitIncrIdle /\ InitStoreIdle /\ InitFullIdle

SpecHttp == InitProbe /\ [][NextHttp]_vars

\* every step of hs_request ends: the token exchange and the API call carry a
\* timeout (lines 65, 96) and time.sleep returns
SpecHttpFair == SpecHttp /\ WF_vars(HsStep)

HsRunning == hpc \in {"token", "send", "recv"}

HsEnded == hpc \in {"returned", "raised"}

\* what a 2xx response with body b must make hs_request return
ExpectedResult(b) == IF b.kind = "empty" THEN EmptyObj ELSE b.val

\* C5: after k transient responses (k <= max_retries) followed by a response
\* with status < 300, hs_request returns that response's decoded body having
\* issued exactly k + 1 API calls; it gives up on a transient status only after
\* more than max_retries of them.
C5_RetryThenSuccess ==
    /\ hpc = "returned" =>
          /\ resp.status < 300
          /\ transient_seen <= req.max_retries
          /\ result = ExpectedResult(resp.body)
          /\ calls = transient_seen + 1
    /\ (hpc = "raised" /\ err.kind = "api" /\ err.status \in TransientStatuses) =>
          transient_seen > req.max_retries
    /\ (hpc = "raised" /\ err.kind = "decode") => resp.body.kind = "garbage"

C5_Witness ==
    /\ hpc = "returned"
    /\ req.max_retries = max_retries_default
    /\ transient_seen = max_retries_default
    /\ calls = max_retries_default + 1
    /\ result = Envelope(<<Rec(1, NoLm)>>, "a")

\* C6 as claimed: the number of token exchanges of one hs_request equals the
\* number of API HTTP attempts it has made (a fresh token before every attempt).
C6_TokenPerAttempt == hpc \in {"recv", "returned"} => tokens = calls

\* C6 amended: hs_request exchanges the token exactly once per invocation,
\* before its first API call; every retry reuses that token.
C6_TokenOncePerRequest ==
    /\ hpc \in {"send", "recv", "returned", "raised"} => tokens = 1
    /\ hpc = "token" => (tokens = 0 /\ calls = 0)

C6_Witness == hpc = "returned" /\ calls = 3 /\ tokens = 1

\* C7: on a response with status >= 300 outside {429, 500, 502, 503, 504},
\* hs_request raises the API error carrying status, path and body at once:
\* no sleep and no further HTTP call follows that response.
C7_FatalNoRetry ==
    [][(hpc = "recv" /\ resp.status >= 300 /\ resp.status \notin TransientStatuses) =>
          /\ hpc' = "raised"
          /\ err' = [kind |-> "api", status |-> resp.status, path |-> req.path,
                     body |-> resp.body]
          /\ calls' = calls
          /\ calls' = transient_seen + 1
          /\ sleeps' = sleeps]_vars

C7_Witness ==
    /\ hpc = "raised"
    /\ err = [kind |-> "api", status |-> 404, path |-> "/probe", body |-> GarbageBody]
    /\ calls = 1
    /\ sleeps = 0

\* C8: with max_retries = N, hs_request never issues more than N + 1 API calls;
\* when every response is transient it raises the API error after exactly
\* N + 1 calls; and every hs_request ends (returns or raises).
C8_RetryBudget ==
    /\ [](calls <= req.max_retries + 1)
    /\ []((HsEnded /\ calls > 0 /\ transient_seen = calls) =>
            /\ hpc = "raised"
            /\ err.kind = "api"
            /\ calls = req.max_retries + 1)
    /\ (HsRunning ~> HsEnded)

C8_Witness ==
    /\ hpc = "raised"
    /\ err.kind = "api"
    /\ req.max_retries = max_retries_default
    /\ transient_seen = max_retries_default + 1
    /\ calls = max_retries_default + 1

\* C9: on a first response with status < 300, hs_request returns the decoded
\* JSON body unchanged ({} when the body text is empty) after exactly one API
\* call.
C9_SuccessReturnsBody ==
    [][(hpc = "recv" /\ resp.status < 300 /\ resp.body.kind # "garbage"
            /\ transient_seen = 0) =>
          /\ hpc' = "returned"
          /\ result' = ExpectedResult(resp.body)
          /\ calls' = 1
          /\ sleeps' = 0]_vars

C9_Witness ==
    /\ hpc = "returned"
    /\ calls = 1
    /\ resp.body = EmptyBody
    /\ result = EmptyObj

\* the header value is a non-empty string of the decimal digits 0..9
OnlyDigits(h) == h.has /\ h.val # <<>> /\ \A i \in 1..Len(h.val) : h.val[i] \in Digits

RECURSIVE DecimalValue(_, _)
\* the number a string of decimal digits denotes, read from the left
DecimalValue(s, acc) ==
    IF s = <<>> THEN acc ELSE DecimalValue(Tail(s), 10 * acc + DigitVal(Head(s)))

\* the backoff delays of attempts 1..6, in seconds
BackoffDelays == <<2, 4, 8, 16, 32, 60>>

\* the delay a retry after the n-th API call must sleep
ExpectedDelay(h, n) ==
    IF OnlyDigits(h) THEN DecimalValue(h.val, 0)
    ELSE IF n \in 1..Len(BackoffDelays) THEN BackoffDelays[n] ELSE backoff_cap

\* hs_request sleeps in this step
Sleeps == sleeps' = sleeps + 1

\* C23: the delay hs_request sleeps before a retry is the integer value of the
\* Retry-After header when the header is present and all digits, and otherwise
\* min(60, 2^attempt), attempt being the number of API calls made so far
\* (2, 4, 8, 16, 32, 60 seconds for attempts 1..6); without the header no delay
\* exceeds 60 seconds.
C23_RetryDelay ==
    [][Sleeps =>
          /\ attempt = calls
          /\ sleep_s' = ExpectedDelay(retry_after(resp), calls)
          /\ ~retry_after(resp).has => sleep_s' <= 60]_vars

C23_Witness ==
    /\ hpc = "send"
    /\ sleeps = 6
    /\ calls = 6
    /\ sleep_s = 60
    /\ retry_after(resp) = NoHeader

----------------------------------------------------------------------------
(* SpecPage: one paginate_get over a list endpoint that answers each request *)
(* with any page                                                            *)

\* a caller invokes paginate_get, with or without an 'after' in params
PageCall ==
    /\ ppc = "idle"
    /\ \E a \in Cursors \cup {None}, k \in {"results", None} : paginate_get("/list", a, k)
    /\ UNCHANGED <<hvars, ivars, svars, fvars>>

NextPage ==
    \/ PageCall
    \/ paginate_get_request
    \/ paginate_get_page
    \/ paginate_get_raise
    \/ get_access_token
    \/ hs_request_send
    \/ hs_request_network_error
    \/ hs_request_return
    \/ hs_request_retry
    \/ hs_request_raise

SpecPage == InitProbe /\ [][NextPage]_vars

\* the records of one page, as the envelope carries them
PageResults(pg) == IF "results" \in pg.keys THEN pg.results ELSE <<>>

\* the cursor of one page: None when the envelope carries none
PageCursor(pg) == IF "paging" \in pg.keys THEN pg.after ELSE None

RECURSIVE ConcatPages(_)
ConcatPages(pgs) ==
    IF Len(pgs) = 0 THEN <<>>
    ELSE ConcatPages(SubSeq(pgs, 1, Len(pgs) - 1)) \o PageResults(pgs[Len(pgs)])

\* C10: when paginate_get returns after pages P1..Pn, P1..P(n-1) carried a
\* cursor and Pn none, it made exactly n requests, request i > 1 carried as
\* 'after' exactly the cursor of page i-1 (whatever 'after' p held before),
\* and with the default page_key the value returned is the concatenation of
\* the results of P1..Pn in page order.
C10_PaginateConcat ==
    ppc = "done" =>
        LET n == Len(pages_got)
        IN  /\ n >= 1
            /\ Len(sent) = n
            /\ \A i \in 2..n : sent[i] = PageCursor(pages_got[i - 1])
            /\ \A i \in 1..(n - 1) : PageCursor(pages_got[i]) \notin {None, ""}
            /\ PageCursor(pages_got[n]) \in {None, ""}
            /\ page_key = "results" => out = ConcatPages(pages_got)

C10_Witness ==
    /\ ppc = "done"
    /\ page_key = "results"
    /\ Len(pages_got) = 3
    /\ sent = <<"b", "a", "b">>
    /\ PageCursor(pages_got[3]) = None
    /\ Len(out) = 5

----------------------------------------------------------------------------
(* SpecIncr: incremental_object run again and again for one entity, over a  *)
(* CRM that does not change                                                 *)

RECURSIVE SeqsUpTo(_, _)
\* the sequences over S of length at most n
SeqsUpTo(S, n) ==
    IF n = 0 THEN {<<>>}
    ELSE LET shorter == SeqsUpTo(S, n - 1)
         IN  shorter \cup {Append(q, x) : q \in {t \in shorter : Len(t) = n - 1}, x \in S}

\* the store after earlier runs: another entity's row, and for this entity no
\* row yet or the row an earlier run wrote
InitIncr ==
    /\ ipc = "idle"
    /\ since = default_iso
    /\ s_after = None
    /\ rows = <<>>
    /\ \E own \in {{}, {WmRow(IncrEntity, "hs_lastmodifieddate", 2, 0)}} :
          wm_table = own \cup {WmRow(OtherEntity, "hs_lastmodifieddate", 3, 0)}
    /\ now = 0
    /\ sink = [e \in SinkEntities |-> <<>>]
    /\ crm \in SeqsUpTo(CrmObjects, MaxRecs)
    /\ run_no = 0
    /\ table0 = wm_table
    /\ sink0 = sink
    /\ write_attempted = FALSE
    /\ write_returned = FALSE
    /\ set_calls = 0
    /\ set_args = <<>>
    /\ written = <<>>
    /\ failed_at = "none"
    /\ prev_ok = FALSE

NextIncr ==
    \/ incremental_object
    \/ crm_search_since_request
    \/ crm_search_since_page
    \/ crm_search_since_raise
    \/ write_bronze_delta_empty
    \/ write_bronze_delta_append
    \/ write_bronze_delta_fails
    \/ incremental_object_no_commit
    \/ incremental_object_commit
    \/ incremental_object_commit_fails
    \/ get_access_token
    \/ hs_request_send
    \/ hs_request_network_error
    \/ hs_request_return
    \/ hs_request_retry
    \/ hs_request_raise

InitIncrRuns == InitHttp /\ InitPage /\ InitIncr /\ InitStoreIdle /\ InitFullIdle

SpecIncr == InitIncrRuns /\ [][NextIncr]_vars

\* what get_watermark returns for the entity in the current state
StoredWm == get_watermark(wm_table, IncrEntity, default_iso)

\* the records of the upstream objects whose hs_lastmodifieddate is at or
\* above w, in upstream order
AtOrAbove(w) ==
    LET Test(r) == crm[r.id].ts >= w
    IN  SelectSeq([i \in 1..Len(crm) |->
                     Rec(i, IF crm[i].shown THEN crm[i].ts ELSE NoLm)], Test)

\* the second of two runs in succession, the first having ended normally,
\* has ended normally too
SecondRunDone == ipc = "done" /\ run_no >= 2 /\ prev_ok

\* every record the search returns carries properties.hs_lastmodifieddate
AllShown == \A i \in 1..Len(crm) : crm[i].shown

\* C1 as claimed: the second of two successful runs in succession over an
\* unchanged upstream writes zero records and leaves get_watermark unchanged
\* (stated for an upstream whose records all carry hs_lastmodifieddate).
C1_SecondRunWritesNothing ==
    (SecondRunDone /\ AllShown) => (written = <<>> /\ StoredWm = since)

\* C1 amended: the second run appends again exactly the records whose
\* hs_lastmodifieddate is at or above the watermark the first run left (the
\* filter is GTE), and get_watermark returns the same value after it.
C1_SecondRunRefetchesBoundary ==
    SecondRunDone => (written = AtOrAbove(since) /\ StoredWm = since)

C1_Witness ==
    /\ SecondRunDone
    /\ since = 3
    /\ Len(written) = 1
    /\ Len(sink[IncrEntity]) = 3
    /\ StoredWm = 3

\* C2: when the sink write of a run fails, set_watermark is not called in
\* that run and the store is as it was before the run; in every run
\* set_watermark is called only after write_bronze_delta has returned.
C2_WriteFailureKeepsWatermark ==
    /\ failed_at = "write" =>
          /\ set_calls = 0
          /\ wm_table = table0
          /\ StoredWm = since
    /\ set_calls > 0 => (write_returned /\ failed_at # "write")

C2_Witness ==
    /\ ipc = "failed"
    /\ failed_at = "write"
    /\ since = 2
    /\ Len(rows) = 2
    /\ rows[1].lm = 3
    /\ StoredWm = 2

MaxOf(S) == CHOOSE x \in S : \A y \in S : y <= x

\* the hs_lastmodifieddate values the fetched records carry
FetchedLm == {rows[i].lm : i \in 1..Len(rows)} \ {NoLm}

\* C3: after a run that fetched records (some carrying hs_lastmodifieddate),
\* wrote them and ended normally, the stored watermark is the maximum
\* hs_lastmodifieddate over all fetched records, in whatever order they came.
C3_WatermarkIsMax ==
    (ipc = "done" /\ rows # <<>> /\ FetchedLm # {}) =>
        (write_returned /\ StoredWm = MaxOf(FetchedLm))

C3_Witness ==
    /\ ipc = "done"
    /\ Len(rows) = 2
    /\ rows[1].lm = 3
    /\ rows[2].lm = 1
    /\ since = default_iso
    /\ StoredWm = 3

\* C4: when a search request of a run raises, on the first page or a later
\* one, the run ends there: no sink write is attempted, the sink and the
\* watermark store are as they were before the run.
C4_SearchFailureAborts ==
    failed_at = "search" =>
        /\ ipc = "failed"
        /\ ~write_attempted
        /\ ~write_returned
        /\ set_calls = 0
        /\ sink = sink0
        /\ wm_table = table0

C4_Witness ==
    /\ failed_at = "search"
    /\ ipc = "failed"
    /\ Len(rows) = 1
    /\ s_after = "1"
    /\ err.kind = "api"

\* C18: when a run fetches zero records it attempts no Delta save and calls
\* set_watermark not at all: the watermark store and the sink are, from the
\* end of the search to the end of the run, as they were before the run.
C18_EmptyRunTouchesNothing ==
    (ipc \in {"write", "commit", "done"} /\ rows = <<>>) =>
        /\ ~write_attempted
        /\ written = <<>>
        /\ set_calls = 0
        /\ set_args = <<>>
        /\ wm_table = table0
        /\ sink = sink0

C18_Witness ==
    /\ ipc = "done"
    /\ rows = <<>>
    /\ write_returned
    /\ Len(crm) = 2
    /\ since = 2
    /\ calls = 1

\* the run has ended, it fetched at least one record and write_bronze_delta
\* returned
WroteSomeAndEnded == ipc \in {"done", "failed"} /\ rows # <<>> /\ write_returned

\* C20 as claimed: whenever a run fetches at least one record and the sink
\* write succeeds, set_watermark is called exactly once, with a value no fetched
\* record exceeds, also when some or all records carry no hs_lastmodifieddate.
C20_SetOncePerNonEmptyRun ==
    WroteSomeAndEnded =>
        /\ Len(set_args) = 1
        /\ \A i \in 1..Len(rows) : rows[i].lm <= set_args[1]

\* C20 amended: such a run calls set_watermark exactly once, with the maximum
\* hs_lastmodifieddate of the fetched records, when at least one fetched record
\* carries hs_lastmodifieddate; when none does, it does not call set_watermark
\* and the store stays as it was before the run.
C20_SetOnceWhenSomeValue ==
    WroteSomeAndEnded =>
        IF FetchedLm # {}
        THEN set_calls = 1 /\ set_args = <<MaxOf(FetchedLm)>>
        ELSE set_calls = 0 /\ set_args = <<>> /\ wm_table = table0

C20_Witness ==
    /\ ipc = "done"
    /\ Len(rows) = 2
    /\ rows[1].lm = 3
    /\ rows[2].lm = NoLm
    /\ write_returned
    /\ set_args = <<3>>

----------------------------------------------------------------------------
(* SpecStoreSeq: one notebook run after another uses the watermark table,   *)
(* one call at a time. SpecStore: the set_watermark calls of two notebook   *)
(* runs interleave freely.                                                  *)

\* tables of up to MaxInitRows rows, as the schema allows them
AnyTables == {t \in SUBSET InitRows : Cardinality(t) <= MaxInitRows}

\* tables with at most one row per entity, as set_watermark leaves them
OneRowTables ==
    {t \in SUBSET InitRows : \A e \in Entities : Cardinality({r \in t : r.entity = e}) <= 1}

\* the incremental notebook is not running; the watermark table is one of tables
InitStoreTable(tables) ==
    /\ ipc = "idle"
    /\ since = default_iso
    /\ s_after = None
    /\ rows = <<>>
    /\ wm_table \in tables
    /\ now = 1
    /\ sink = [e \in SinkEntities |-> <<>>]
    /\ crm = <<>>
    /\ run_no = 0
    /\ table0 = {}
    /\ sink0 = [e \in SinkEntities |-> <<>>]
    /\ write_attempted = FALSE
    /\ write_returned = FALSE
    /\ set_calls = 0
    /\ set_args = <<>>
    /\ written = <<>>
    /\ failed_at = "none"
    /\ prev_ok = FALSE

InitStoreSeq == InitHttp /\ InitPage /\ InitStoreTable(AnyTables) /\ InitStoreIdle /\ InitFullIdle

InitStore == InitHttp /\ InitPage /\ InitStoreTable(OneRowTables) /\ InitStoreIdle /\ InitFullIdle

NextStoreSeq ==
    \/ ensure_watermark_table_ok("run_a")
    \/ ensure_watermark_table_recreate("run_a")
    \/ get_watermark_call("run_a")
    \/ set_watermark_read("run_a")
    \/ set_watermark_overwrite("run_a")
    \/ set_watermark_overwrite_fails("run_a")

SpecStoreSeq == InitStoreSeq /\ [][NextStoreSeq]_vars

NextStore ==
    \E p \in Procs :
        \/ set_watermark_read(p)
        \/ set_watermark_overwrite(p)
        \/ set_watermark_overwrite_fails(p)

SpecStore == InitStore /\ [][NextStore]_vars

\* the rows of entity e in table t
EntriesOf(t, e) == {r \in t : r.entity = e}

\* run p's set_watermark call returns in this step
SetReturns(p) == spc[p] = "overwrite" /\ spc'[p] = "done"

\* C15: with set_watermark calls executed one at a time, a call
\* set_watermark(e, t, v) that returns leaves the rows of every other entity as
\* they were, leaves exactly one row for e, and a get_watermark(e) made next
\* returns v.
C15_SetKeepsOthers ==
    [][\A p \in Procs : SetReturns(p) =>
          /\ \A e \in Entities \ {s_ent[p]} : EntriesOf(wm_table', e) = EntriesOf(wm_table, e)
          /\ Cardinality(EntriesOf(wm_table', s_ent[p])) = 1
          /\ get_watermark_values(wm_table', s_ent[p], default_iso) = {s_val[p]}]_vars

C15_Witness ==
    /\ spc["run_a"] = "done"
    /\ s_ent["run_a"] = IncrEntity
    /\ s_val["run_a"] = 1
    /\ now = 3
    /\ wm_table = {WmRow(IncrEntity, "hs_lastmodifieddate", 1, 3),
                    WmRow(OtherEntity, "hs_lastmodifieddate", 2, 0),
                    WmRow(OtherEntity, "hs_lastmodifieddate", 1, 1)}

\* the greatest updated_at among rows, a null counting as the least
GreatestTs(cand) == CHOOSE x \in {r.updated_at : r \in cand} :
                        \A r \in cand : r.updated_at <= x

\* C16: get_watermark(entity, default) returns the watermark_value of a row of
\* the entity whose updated_at is the greatest among the entity's rows, and the
\* default when the entity has no row, whatever rows other entities have.
C16_GetNewest ==
    [][gw' # gw =>
          LET cand == EntriesOf(wm_table, gw'.entity)
          IN  IF cand = {} THEN gw'.value = default_iso
              ELSE \E r \in cand : /\ r.watermark_value = gw'.value
                                    /\ r.updated_at = GreatestTs(cand)]_vars

C16_Witness ==
    /\ gw = [entity |-> IncrEntity, value |-> 1]
    /\ wm_table = {WmRow(IncrEntity, "hs_lastmodifieddate", 1, 1),
                    WmRow(IncrEntity, "hs_lastmodifieddate", 2, 0),
                    WmRow(OtherEntity, "hs_lastmodifieddate", 2, 1)}

\* C17: once an entity has a row in the watermark table, no operation of the
\* connector, a failed read included, leaves the table without a row for it.
C17_EntryNeverDeleted ==
    [][\A e \in Entities : EntriesOf(wm_table, e) # {} => EntriesOf(wm_table', e) # {}]_vars

\* C19: when the set_watermark calls of two runs for two different entities
\* interleave, then once both have returned get_watermark returns for each
\* entity the value its own call wrote.
C19_NoLostUpdate ==
    [][\A p \in Procs : \A q \in Procs \ {p} :
          (SetReturns(p) /\ spc[q] = "done" /\ s_olap[p] /\ s_olap[q]
              /\ s_ent[p] # s_ent[q]) =>
              /\ get_watermark_values(wm_table', s_ent[p], default_iso) = {s_val[p]}
              /\ get_watermark_values(wm_table', s_ent[q], default_iso) = {s_val[q]}]_vars

----------------------------------------------------------------------------
(* SpecFull: one run of the full-load notebook over an earlier snapshot.    *)
(* SpecRevenue: the same run from load_campaign_revenue (line 93) on.       *)

RevStep == CHOOSE i \in 1..Len(FullSteps) : FullSteps[i].fn = "load_campaign_revenue"

\* the steps before k whose entity is e
LoadedBefore(k, e) == {j \in 1..(k - 1) : FullSteps[j].entity = e}

\* the incremental notebook is not running; the upstream is one of ups; the
\* full-load notebook is about to make load call k (0: it has not started),
\* the calls before k have returned normally; the sink holds, for every entity
\* not replaced by them, the snapshot of an earlier run
InitFullRunAt(k, ups) ==
    /\ ipc = "idle"
    /\ since = default_iso
    /\ s_after = None
    /\ rows = <<>>
    /\ wm_table = {}
    /\ now = 0
    /\ up \in ups
    /\ sink = [e \in SinkEntities |->
                 IF LoadedBefore(k, e) # {} /\ up[e] # <<>> THEN up[e] ELSE OldRows]
    /\ crm = <<>>
    /\ run_no = 0
    /\ table0 = {}
    /\ sink0 = sink
    /\ write_attempted = FALSE
    /\ write_returned = FALSE
    /\ set_calls = 0
    /\ set_args = <<>>
    /\ written = <<>>
    /\ failed_at = "none"
    /\ prev_ok = FALSE
    /\ fpc = IF k = 0 THEN "idle" ELSE "call"
    /\ step = k
    /\ frows = IF k > 1 THEN up[FullSteps[k - 1].entity] ELSE <<>>
    /\ campaigns = IF k >= RevStep THEN up["marketing_campaigns"] ELSE <<>>
    /\ c_idx = 0
    /\ f_auth = FALSE
    /\ f_api_at = 0
    /\ f_loaded = 1..(k - 1)
    /\ f_fail = "none"
    /\ f_rev = <<>>

InitFull == InitHttp /\ InitPage /\ InitFullRunAt(0, Upstreams) /\ InitStoreIdle

NextFull ==
    \/ full_load_start
    \/ load_paged_call
    \/ load_paged_return
    \/ load_paged_raise
    \/ load_owners_fallback
    \/ load_owners_fallback_return
    \/ load_owners_fallback_raise
    \/ load_single_call
    \/ load_single_return
    \/ load_single_raise
    \/ load_campaign_revenue
    \/ load_campaign_revenue_skip
    \/ load_campaign_revenue_request
    \/ load_campaign_revenue_append
    \/ load_campaign_revenue_except
    \/ load_campaign_revenue_end
    \/ write_bronze_delta_overwrite_empty
    \/ write_bronze_delta_overwrite
    \/ write_bronze_delta_overwrite_fails
    \/ paginate_get_request
    \/ paginate_get_page
    \/ paginate_get_not_dict
    \/ paginate_get_raise
    \/ get_access_token
    \/ hs_request_send
    \/ hs_request_network_error
    \/ hs_request_return
    \/ hs_request_raise

SpecFull == InitFull /\ [][NextFull]_vars

InitRevenue ==
    /\ InitHttp
    /\ InitPage
    /\ InitFullRunAt(RevStep, {Upstream({}, cl) : cl \in CampaignLists})
    /\ InitStoreIdle

NextRevenue ==
    \/ load_campaign_revenue
    \/ load_campaign_revenue_skip
    \/ load_campaign_revenue_request
    \/ load_campaign_revenue_append
    \/ load_campaign_revenue_except
    \/ load_campaign_revenue_end
    \/ load_single_call
    \/ load_single_return
    \/ load_single_raise
    \/ write_bronze_delta_overwrite_empty
    \/ write_bronze_delta_overwrite
    \/ write_bronze_delta_overwrite_fails
    \/ get_access_token
    \/ hs_request_send
    \/ hs_request_network_error
    \/ hs_request_return
    \/ hs_request_raise

SpecRevenue == InitRevenue /\ [][NextRevenue]_vars

\* the load call that returned last
LastLoaded == IF fpc = "done" THEN step ELSE step - 1

\* C11: after a load call of the full-load run has returned, the Delta table
\* of its entity holds exactly the records that call fetched, nothing of the
\* earlier snapshot, for every fetched set, the empty one included.
C11_FullLoadReplaces ==
    (fpc \in {"call", "done"} /\ LastLoaded >= 1) =>
        sink[FullSteps[LastLoaded].entity] = frows

\* C12: once a token exchange has failed in a run, the run is over for all
\* entities: no further request is started, no load call returns and the sink
\* is written no more, wherever in the run the exchange failed.
C12_AuthFailureAbortsRun ==
    [][f_auth => /\ ~(hpc' = "token" /\ hpc # "token")
                 /\ f_loaded' = f_loaded
                 /\ sink' = sink]_vars

\* the run is over and nothing but API errors went wrong in it: it reached its
\* last line, or the exception that left it is the API error of a fetch
OnlyApiErrorsEnded ==
    \/ fpc = "done"
    \/ fpc = "aborted" /\ f_fail = "fetch" /\ hpc = "raised" /\ err.kind = "api"

\* C13: when the fetch of one entity fails with an API error (and no token
\* exchange, network call or write fails), every load call that follows it in
\* the notebook has still returned by the end of the run.
C13_SiblingsStillLoaded ==
    (f_api_at # 0 /\ ~f_auth /\ OnlyApiErrorsEnded) =>
        \A j \in (f_api_at + 1)..Len(FullSteps) : j \in f_loaded

\* the batch the claim expects from what happened per campaign: one record
\* per campaign whose request returned, in order, tagged with the campaign id
ExpectedBatch(h) ==
    LET Ok(x) == x.status = "ok"
        ok == SelectSeq(h, Ok)
    IN  [i \in 1..Len(ok) |->
            [keys |-> ok[i].rev.keys \cup {"_campaignGuid"}, results |-> ok[i].rev.results,
             after |-> ok[i].rev.after, campaignGuid |-> ok[i].guid]]

\* C14: in load_campaign_revenue every campaign is visited in order; the batch
\* handed to write_bronze_delta holds exactly one record per campaign whose
\* revenue request returned, in campaign order, each the report of that
\* campaign tagged with its id; campaigns whose request raised (and campaigns
\* without id) are skipped, a raised request does not end the run, and the
\* batch, when not empty, is what the Delta table holds after the write.
C14_RevenueBatch ==
    /\ (step = RevStep /\ fpc = "write") =>
          /\ Len(f_rev) = Len(campaigns)
          /\ \A i \in 1..Len(campaigns) :
                /\ f_rev[i].guid = campaigns[i].id
                /\ (f_rev[i].status = "no_id") = (campaigns[i].id = NoId)
                /\ f_rev[i].status = "ok" => f_rev[i].rev = RevObj(campaigns[i].id)
          /\ frows = ExpectedBatch(f_rev)
    /\ (step = RevStep /\ fpc = "aborted") => f_fail = "write"
    /\ (step = RevStep + 1 /\ fpc = "call" /\ frows # <<>>) =>
          sink["marketing_campaign_revenue"] = ExpectedBatch(f_rev)

C14_Witness ==
    /\ step = RevStep + 1
    /\ fpc = "call"
    /\ Len(campaigns) = 3
    /\ [i \in 1..3 |-> f_rev[i].status] = <<"ok", "failed", "ok">>
    /\ f_api_at = RevStep
    /\ ~f_auth
    /\ Len(sink["marketing_campaign_revenue"]) = 2
    /\ sink["marketing_campaign_revenue"][2].campaignGuid = 3

----------------------------------------------------------------------------
(* SpecLive: the incremental notebook run again and again, each run started *)
(* by the bootstrap of the configuration notebook, over a CRM that changes  *)
(* between the runs and not during them                                     *)

\* the greatest hs_lastmodifieddate upstream, 0 when there is no object
MaxTs(objs) == IF Len(objs) = 0 THEN 0 ELSE MaxOf({objs[i].ts : i \in 1..Len(objs)})

\* between two runs an object is created or modified upstream: HubSpot stamps
\* it with the time of the change, which no earlier stamp exceeds and which is
\* later than the stamp the object had
upstream_change ==
    /\ ipc \in {"idle", "done", "failed"}
    /\ \E o \in CrmObjects :
          /\ o.ts >= MaxTs(crm)
          /\ \/ /\ Len(crm) < MaxRecs
                /\ crm' = Append(crm, o)
             \/ \E i \in 1..Len(crm) :
                   /\ o.ts > crm[i].ts
                   /\ crm' = [crm EXCEPT ![i] = o]
    /\ UNCHANGED <<ipc, since, s_after, rows, wm_table, now, sink, run_no, table0, sink0,
                   write_attempted, write_returned, set_calls, set_args, written, failed_at, prev_ok>>
    /\ UNCHANGED <<hvars, pvars, svars, fvars>>

\* line 2 of the incremental notebook (%run of the configuration notebook, its
\* line 187) when the read of the watermark table succeeds
bootstrap_ok ==
    /\ ipc \in {"idle", "done", "failed"}
    /\ ensure_watermark_table_ok("run_a")

\* the same when the read of the watermark table raises
bootstrap_recreate ==
    /\ ipc \in {"idle", "done", "failed"}
    /\ ensure_watermark_table_recreate("run_a")

\* upstream holds at most one object. Either no run has been made yet (the
\* entity has no watermark row and its sink is empty), or one run has fetched
\* and written the object and has stored its stamp
InitLiveRun ==
    /\ ipc = "idle"
    /\ since = default_iso
    /\ s_after = None
    /\ rows = <<>>
    /\ crm \in SeqsUpTo(CrmObjects, 1)
    /\ now = 0
    /\ \/ /\ wm_table = {WmRow(OtherEntity, "hs_lastmodifieddate", 3, 0)}
          /\ sink = [e \in SinkEntities |-> <<>>]
       \/ /\ Len(crm) = 1
          /\ crm[1].shown
          /\ wm_table = {WmRow(OtherEntity, "hs_lastmodifieddate", 3, 0),
                         WmRow(IncrEntity, "hs_lastmodifieddate", crm[1].ts, 0)}
          /\ sink = [e \in SinkEntities |->
                       IF e = IncrEntity THEN <<Rec(1, crm[1].ts)>> ELSE <<>>]
    /\ run_no = 0
    /\ table0 = wm_table
    /\ sink0 = sink
    /\ write_attempted = FALSE
    /\ write_returned = FALSE
    /\ set_calls = 0
    /\ set_args = <<>>
    /\ written = <<>>
    /\ failed_at = "none"
    /\ prev_ok = FALSE

InitLive == InitHttp /\ InitPage /\ InitLiveRun /\ InitStoreIdle /\ InitFullIdle

NextLive ==
    \/ upstream_change
    \/ bootstrap_ok
    \/ bootstrap_recreate
    \/ incremental_object
    \/ crm_search_since_request
    \/ crm_search_since_page
    \/ crm_search_since_raise
    \/ write_bronze_delta_empty
    \/ write_bronze_delta_append
    \/ write_bronze_delta_fails
    \/ incremental_object_no_commit
    \/ incremental_object_commit
    \/ incremental_object_commit_fails
    \/ get_access_token
    \/ hs_request_send
    \/ hs_request_network_error
    \/ hs_request_return
    \/ hs_request_retry
    \/ hs_request_raise

SpecLive == InitLive /\ [][NextLive]_vars

\* every upstream object stamped strictly below the stored watermark is in
\* the sink, as the search returns it now
DeliveredBelowWm ==
    \A i \in 1..Len(crm) :
        crm[i].ts < StoredWm =>
            \E k \in 1..Len(sink[IncrEntity]) : sink[IncrEntity][k] = RawOf(i)

\* a run starts in this step, the run before it having failed
RetryStarts == ipc = "failed" /\ ipc' = "search"

\* C21: over any sequence of incremental runs, each of which may fail at the
\* search, at the sink write or at the watermark update, every upstream record
\* stamped strictly below the stored watermark has been written to the sink;
\* and the run that follows a failed run searches from the watermark the failed
\* run searched from.
C21_AtLeastOnce ==
    [][/\ DeliveredBelowWm'
       /\ RetryStarts => since' = since]_vars

\* C22: the stored watermark of the entity never decreases over any sequence
\* of incremental runs, successful or failed (the upstream returns only records
\* stamped at or above the lower bound of the search).
C22_WatermarkNeverDecreases ==
    [][StoredWm' >= StoredWm]_vars

----------------------------------------------------------------------------
(* SpecCursor: paginate_get over a list endpoint of MaxPages pages at most, *)
(* and crm_search_since over a CRM of MaxRecs objects at most; every step   *)
(* of the code is taken in the end (the requests carry a timeout)           *)

\* a caller invokes paginate_get on the finite list endpoint (a behaviour
\* holds either one paginate_get or runs of the incremental notebook)
PaginateCall ==
    /\ ppc = "idle"
    /\ ipc = "idle"
    /\ \E a \in {"a", None} : paginate_get("/finite", a, "results")
    /\ UNCHANGED <<hvars, ivars, svars, fvars>>

\* incremental_object calls crm_search_since (line 48)
SearchCall ==
    /\ ppc = "idle"
    /\ incremental_object

SearchStep == crm_search_since_request \/ crm_search_since_page \/ crm_search_since_raise

\* the CRM holds up to MaxRecs objects, all matching the search
InitCursorRun ==
    /\ ipc = "idle"
    /\ since = default_iso
    /\ s_after = None
    /\ rows = <<>>
    /\ wm_table = {}
    /\ now = 0
    /\ sink = [e \in SinkEntities |-> <<>>]
    /\ crm \in {[i \in 1..n |-> [ts |-> 1, shown |-> TRUE]] : n \in 0..MaxRecs}
    /\ run_no = 0
    /\ table0 = wm_table
    /\ sink0 = sink
    /\ write_attempted = FALSE
    /\ write_returned = FALSE
    /\ set_calls = 0
    /\ set_args = <<>>
    /\ written = <<>>
    /\ failed_at = "none"
    /\ prev_ok = FALSE

InitCursor == InitHttp /\ InitPage /\ InitCursorRun /\ InitStoreIdle /\ InitFullIdle

NextCursor ==
    \/ PaginateCall
    \/ paginate_get_request
    \/ paginate_get_page
    \/ paginate_get_raise
    \/ SearchCall
    \/ crm_search_since_request
    \/ crm_search_since_page
    \/ crm_search_since_raise
    \/ get_access_token
    \/ hs_request_send
    \/ hs_request_network_error
    \/ hs_request_return
    \/ hs_request_retry
    \/ hs_request_raise

SpecCursor ==
    InitCursor /\ [][NextCursor]_vars
        /\ WF_vars(HsStep) /\ WF_vars(PgStep) /\ WF_vars(SearchStep)

\* the page carries a paging.next.after cursor (an empty one is none)
HasCursor(pg) == PageCursor(pg) \notin {None, ""}

\* paginate_get, crm_search_since handles in this step the page hs_request returned
PaginateHandles == ppc = "wait" /\ hpc = "returned" /\ ppc' # ppc

SearchHandles == ipc = "wait" /\ hpc = "returned" /\ ipc' # ipc

\* a request is started in this step
RequestStarts == hpc' = "token" /\ hpc # "token"

\* C24: paginate_get and crm_search_since go on with the cursor of the page while
\* the page carries one, stop at the first page that carries none and request
\* no page after it; over an upstream that hands out a page without cursor
\* after finitely many pages they end, and they return unless a request raised.
C24_StopsOnCursorAbsence ==
    /\ [][PaginateHandles =>
            IF HasCursor(result)
            THEN ppc' = "loop" /\ p_after' = PageCursor(result)
            ELSE ppc' = "done"]_vars
    /\ [][SearchHandles =>
            IF HasCursor(result)
            THEN ipc' = "search" /\ s_after' = PageCursor(result)
            ELSE ipc' = "write"]_vars
    /\ [][RequestStarts => (ppc = "loop" \/ ipc = "search")]_vars
    /\ [](ppc = "done" => (Len(sent) = Len(pages_got) /\ ~HasCursor(pages_got[Len(pages_got)])))
    /\ [][((ppc' = "failed" /\ ppc # "failed") \/ (ipc' = "failed" /\ ipc # "failed")) =>
            hpc = "raised"]_vars
    /\ (ppc \in {"loop", "wait"}) ~> (ppc \in {"done", "failed"})
    /\ (ipc \in {"search", "wait"}) ~> (ipc \in {"write", "failed"})

C24_Witness ==
    /\ ppc = "done"
    /\ Len(sent) = MaxPages
    /\ \A i \in 1..(MaxPages - 1) : HasCursor(pages_got[i])
    /\ PageResults(pages_got[2]) = <<>>
    /\ PageCursor(pages_got[MaxPages]) = ""

----------------------------------------------------------------------------
(* The full-load notebook and the modes of SOURCES *)

\* the full-load notebook replaces the dataset of entity e in this step
Overwrites(e) == fpc = "write" /\ sink'[e] # sink[e]

\* C25: a run of the full-load notebook overwrites only datasets of entities
\* that SOURCES configures with mode full or optional, never the dataset of an
\* entity configured as incremental.
C25_FullLoadSparesIncremental ==
    [][\A e \in SinkEntities :
          Overwrites(e) => (e \in DOMAIN SOURCES /\ SOURCES[e] \in {"full", "optional"})]_vars

====
